---- MODULE Spec2Model ----
(***************************************************************************)
(* Model of the Twitter search scraper.                                    *)
(*                                                                         *)
(*   TwitterSearch.py   perform_search (the paginated crawl loop) and      *)
(*                      execute_search (request, retry, session rotation)  *)
(*   TwitterSlicer.py   search (one task per day on a thread pool),        *)
(*                      save_tweets (hour buckets, shared counter, limit)  *)
(*                      and close_file                                     *)
(*   TwitterScraper.py  the unsliced program: TwitterSearch.search,        *)
(*                      execute_search, TwitterSearchImpl.search and       *)
(*                      save_items, one thread and one output file         *)
(*                                                                         *)
(* A run is a run of one of the two programs (variable program).           *)
(*                                                                         *)
(* One crawler is one call of perform_search for one day of the range; the *)
(* crawler of day d is named d.  The server is the environment: every      *)
(* request is answered by a body, or by an HTTPError of status 400, 429 or *)
(* another status, chosen freely.                                          *)
(***************************************************************************)
EXTENDS Integers, Sequences, FiniteSets, TLC

\* ---------------------------------------------------------------- bounds
MaxDays == 2            \* days in the range [since, until)
MaxThreads == 1         \* n_threads given to TwitterSlicer
MaxLimit == 2           \* limit given to TwitterSlicer
MaxPage == 2            \* records in one page
RecursionLimit == 27    \* depth at which the interpreter refuses to recurse

\* ------------------------------------------------------ program constants
MAX_RETRIES_SESSION == 5
MAX_RETRIES == MAX_RETRIES_SESSION * 5

\* ------------------------------------------------------------ data types
Days == 1..MaxDays
Hours == {10, 11}       \* tm_hour of the records' created_at

\* parse_tweets: a page is the list of its records; a record is modelled by
\* the hour of its created_at, the only field save_tweets reads.
Pages == UNION {[1..n -> Hours] : n \in 0..MaxPage}

\* The day of the created_at of each record of page p, counted in days
\* from the since: date of the request: 0 for every record when the server
\* keeps to the window.  No code reads the day.
InWindow(p) == [i \in DOMAIN p |-> 0]

\* What execute_search can hand to perform_search: None, or a JSON body
\* that has no 'items_html' key, a null 'items_html', or a page of records.
NoResponse == [kind |-> "none", items |-> <<>>, days |-> <<>>]
Bodies ==
    {[kind |-> "nokey", items |-> <<>>, days |-> <<>>],
     [kind |-> "null", items |-> <<>>, days |-> <<>>]}
        \cup {[kind |-> "page", items |-> p, days |-> InWindow(p)] : p \in Pages}

\* TwitterScraper.py reads two keys of a body: 'items_html' and
\* 'min_position' (0 stands for a null min_position).
Positions == {0, 1, 2}
ImplBodies ==
    {[kind |-> b.kind, items |-> b.items, min_position |-> m] :
        b \in Bodies, m \in Positions}
ImplNoResponse == [kind |-> "none", items |-> <<>>, min_position |-> 0]

\* ------------------------------------------------------------------ dates
\* self.since and self.until are "%Y-%m-%d" strings, modelled by the triple
\* <<year, month, day>> of their three numbers.  A datetime at midnight is
\* modelled by its proleptic Gregorian ordinal (day 1 is 0001-01-01), so
\* that adding timedelta(days=i) is adding i and (b - a).days is b - a.
IsLeap(y) == (y % 4 = 0 /\ y % 100 # 0) \/ y % 400 = 0

DaysInYear(y) == IF IsLeap(y) THEN 366 ELSE 365

DaysInMonth(y, m) ==
    IF m = 2 THEN (IF IsLeap(y) THEN 29 ELSE 28)
    ELSE IF m \in {4, 6, 9, 11} THEN 30 ELSE 31

DaysBeforeYear(y) ==
    (y - 1) * 365 + (y - 1) \div 4 - (y - 1) \div 100 + (y - 1) \div 400

RECURSIVE DaysBeforeMonth(_, _)
DaysBeforeMonth(y, m) ==
    IF m = 1 THEN 0 ELSE DaysBeforeMonth(y, m - 1) + DaysInMonth(y, m - 1)

\* datetime.datetime.strptime(s, "%Y-%m-%d")
strptime(s) == DaysBeforeYear(s[1]) + DaysBeforeMonth(s[1], s[2]) + s[3]

\* The year of the day that is n days after 0001-01-01, and the days from
\* that year's January 1st to it
RECURSIVE YearAndRest(_, _)
YearAndRest(n, y) ==
    IF n < DaysInYear(y) THEN <<y, n>> ELSE YearAndRest(n - DaysInYear(y), y + 1)

RECURSIVE MonthAndDay(_, _, _)
MonthAndDay(n, y, m) ==
    IF n < DaysInMonth(y, m) THEN <<m, n + 1>>
    ELSE MonthAndDay(n - DaysInMonth(y, m), y, m + 1)

\* t.strftime("%Y-%m-%d"); the years before the 400-year cycle of the date
\* are stepped over at once
strftime(t) ==
    LET c == (t - 1) \div DaysBeforeYear(401)
        yr == YearAndRest((t - 1) % DaysBeforeYear(401), 400 * c + 1)
        md == MonthAndDay(yr[2], yr[1], 1)
    IN  <<yr[1], md[1], md[2]>>

VARIABLES
    program,            \* "slicer" (TwitterSlicer) or "scraper" (TwitterScraper.py)
    impl,               \* the TwitterSearchImpl object and its search call
    since,              \* self.since
    until,              \* self.until
    tasks,              \* the day tasks submitted: day_query's window and the
                        \* since_date_str given to perform_search
    wait,               \* the handling of one 429 answer, taken alone
    n_days,             \* (time_until - time_since).days
    n_threads,          \* self.n_threads
    limit,              \* self.limit
    counter,            \* self.counter
    session,            \* self.session: 0 the injected one, d one made by crawler d
    sched,              \* where TwitterSlicer.search stands
    submitted,          \* day tasks handed to the pool so far
    pc,                 \* where each crawler stands
    retry_num,          \* retry_num of the innermost execute_search call
    response,           \* perform_search's response
    idx,                \* index in tweets of the record save_tweets is at
    min_tweet,          \* "none", "fresh" (tweets[0] of the current list), "old"
    continue_search,    \* perform_search's continue_search
    err,                \* the exception that ended the crawler
    last,               \* how the request was answered whose result the
                        \* while test is about to read ("none" otherwise)
    rotations,          \* sessions made by the current execute_search call
    routes,             \* times the current response was given to save_tweets
    max_batch,          \* largest list given to save_tweets so far
    jsonl_files_dicts,  \* per day: is the day a key, and the hours with a stream
    opened,             \* per day: hours of the files opened, in order
    closed,             \* per day: hours of the streams closed, in order
    lines,              \* per day and hour: lines written to the file
    stamps              \* per day: the created_at dates of the records
                        \* written to the day's files

vars == <<program, impl, since, until, tasks, wait, n_days, n_threads, limit, counter, session, sched,
          submitted, pc,
          retry_num, response, idx, min_tweet, continue_search, err, last,
          rotations, routes, max_batch, jsonl_files_dicts, opened, closed,
          lines, stamps>>

schedVars == <<sched, submitted, tasks>>
paramVars == <<program, impl, since, until, wait, n_days, n_threads, limit>>
fileVars == <<max_batch, jsonl_files_dicts, opened, closed, lines, stamps>>

NoDict == [present |-> FALSE, hours |-> {}]

\* TwitterSearchImpl.__init__, before search is called: pc, the position
\* of the one thread; max_items, counter, jsonl_file ("none", "open",
\* "closed") and written (lines in the file), the object's fields;
\* session as for the slicer (1 is a session made by execute_search);
\* response, continue_search, min_item, idx, retry_num, the locals of
\* search, save_items and execute_search; err and last as for a crawler.
ImplInit(m) ==
    [pc |-> "start", max_items |-> m, counter |-> 0, jsonl_file |-> "none",
     written |-> 0, session |-> 0, response |-> ImplNoResponse,
     continue_search |-> TRUE, min_item |-> 0, idx |-> 0, retry_num |-> 0,
     err |-> "none", last |-> "none", saves |-> 0]

\* The slicer's state is made by TwitterSlicer.__init__; in a run of the
\* scraper it is never used, and in a run of the slicer impl is not.
SlicerInit ==
    /\ n_threads \in 1..MaxThreads
    /\ limit \in 1..MaxLimit
    /\ counter = 0
    /\ session = 0
    /\ sched = "submit"
    /\ submitted = 0
    /\ tasks = <<>>
    /\ pc = [d \in Days |-> "unsubmitted"]
    /\ retry_num = [d \in Days |-> 0]
    /\ response = [d \in Days |-> NoResponse]
    /\ idx = [d \in Days |-> 0]
    /\ min_tweet = [d \in Days |-> "none"]
    /\ continue_search = [d \in Days |-> TRUE]
    /\ err = [d \in Days |-> "none"]
    /\ last = [d \in Days |-> "none"]
    /\ rotations = [d \in Days |-> 0]
    /\ routes = [d \in Days |-> 0]
    /\ max_batch = 0
    /\ jsonl_files_dicts = [d \in Days |-> NoDict]
    /\ opened = [d \in Days |-> <<>>]
    /\ closed = [d \in Days |-> <<>>]
    /\ lines = [d \in Days |-> [h \in Hours |-> 0]]
    /\ stamps = [d \in Days |-> {}]

\* The range given to TwitterSlicer, since < until, with since drawn from S,
\* and what search first computes from it:
\* n_days = (time_until - time_since).days
RangeInit(S) ==
    /\ since \in S
    /\ until \in {strftime(strptime(since) + n) : n \in 1..MaxDays}
    /\ n_days = strptime(until) - strptime(since)

\* No 429 answer is looked at alone
NoWait == [at |-> "none"]

Init ==
    \/ /\ program = "slicer"
       /\ impl = ImplInit(1)
       /\ SlicerInit
       /\ RangeInit({<<2020, 1, 1>>})
       /\ wait = NoWait
    \/ /\ program = "scraper"
       /\ impl \in {ImplInit(m) : m \in 1..MaxLimit}
       /\ SlicerInit
       /\ RangeInit({<<2020, 1, 1>>})
       /\ wait = NoWait
       /\ n_days = 1 /\ n_threads = 1 /\ limit = 1

\* ------------------------------------------------------------- scheduler
Running(d) == pc[d] \notin {"unsubmitted", "queued", "done", "error"}
NumRunning == Cardinality({d \in Days : Running(d)})
Finished(d) == pc[d] \in {"done", "error"}

\* ThreadPoolExecutor(max_workers=n_days)
max_workers == n_days

\* time_since = datetime.datetime.strptime(self.since, "%Y-%m-%d")
time_since == strptime(since)

\* time_until = datetime.datetime.strptime(self.until, "%Y-%m-%d")
time_until == strptime(until)

\* since_date = time_since + datetime.timedelta(days=i)
since_date(i) == time_since + i

\* The window of day i closed one day late
until_date_Late(i) == time_since + (i + 2)

\* until_date = time_since + datetime.timedelta(days=(i + 1))
until_date(i) == time_since + (i + 1)

\* The "since:" and "until:" of day_query and the since_date_str of day i
DayTask(i) ==
    [since |-> strftime(since_date(i)), until |-> strftime(until_date(i)),
     since_date_str |-> strftime(since_date(i))]

\* tp.submit(self.perform_search, day_query, since_date_str) for day i
\* (the loop's i is submitted; its crawler is named submitted + 1)
Submit ==
    /\ program = "slicer"
    /\ sched = "submit"
    /\ submitted < n_days
    /\ submitted' = submitted + 1
    /\ tasks' = Append(tasks, DayTask(submitted))
    /\ pc' = [pc EXCEPT ![submitted + 1] = "queued"]
    /\ UNCHANGED <<paramVars, counter, session, sched, retry_num, response, idx,
                   min_tweet, continue_search, err, last, rotations, routes,
                   fileVars>>

\* tp.shutdown(wait=True) is entered once the loop has submitted every day
Shutdown ==
    /\ program = "slicer"
    /\ sched = "submit"
    /\ submitted = n_days
    /\ sched' = "wait"
    /\ UNCHANGED <<paramVars, counter, session, submitted, tasks, pc, retry_num,
                   response, idx, min_tweet, continue_search, err, last,
                   rotations, routes, fileVars>>

\* tp.shutdown(wait=False): search returns while tasks may still run
Return_NoWait ==
    /\ sched = "wait"
    /\ sched' = "returned"
    /\ UNCHANGED <<paramVars, counter, session, submitted, tasks, pc, retry_num,
                   response, idx, min_tweet, continue_search, err, last,
                   rotations, routes, fileVars>>

\* shutdown(wait=True) joins the workers: search returns when no task is left
Return ==
    /\ sched = "wait"
    /\ \A d \in 1..n_days : Finished(d)
    /\ sched' = "returned"
    /\ UNCHANGED <<paramVars, counter, session, submitted, tasks, pc, retry_num,
                   response, idx, min_tweet, continue_search, err, last,
                   rotations, routes, fileVars>>

\* A pool worker takes the task of day d: perform_search starts and makes
\* its first execute_search call.
Start(d) ==
    /\ pc[d] = "queued"
    /\ NumRunning < max_workers
    /\ pc' = [pc EXCEPT ![d] = "fetch"]
    /\ retry_num' = [retry_num EXCEPT ![d] = 0]
    /\ continue_search' = [continue_search EXCEPT ![d] = TRUE]
    /\ min_tweet' = [min_tweet EXCEPT ![d] = "none"]
    /\ UNCHANGED <<paramVars, counter, session, schedVars, response, idx, err,
                   last, rotations, routes, fileVars>>

\* ------------------------------------------------- execute_search
\* One action is one request of execute_search together with the handling
\* of its answer (the sleeps take time and change no state).  A return
\* unwinds every nested call, so retry_num and rotations start again at 0.
\* The answers are told apart as the code tells them apart: no exception,
\* or an HTTPError whose response has status 400, 429 or another status.

\* response = self.session.get(url); data = response.json(); return data
RequestOk(d) ==
    /\ pc[d] = "fetch"
    /\ \E b \in Bodies : response' = [response EXCEPT ![d] = b]
    /\ last' = [last EXCEPT ![d] = "ok"]
    /\ pc' = [pc EXCEPT ![d] = "loop"]
    /\ retry_num' = [retry_num EXCEPT ![d] = 0]
    /\ rotations' = [rotations EXCEPT ![d] = 0]
    /\ UNCHANGED <<paramVars, counter, session, schedVars, idx, min_tweet,
                   continue_search, err, routes, fileVars>>

\* except HTTPError, status 400: return e.response.json()
Request400(d) ==
    /\ pc[d] = "fetch"
    /\ \E b \in Bodies : response' = [response EXCEPT ![d] = b]
    /\ last' = [last EXCEPT ![d] = "400"]
    /\ pc' = [pc EXCEPT ![d] = "loop"]
    /\ retry_num' = [retry_num EXCEPT ![d] = 0]
    /\ rotations' = [rotations EXCEPT ![d] = 0]
    /\ UNCHANGED <<paramVars, counter, session, schedVars, idx, min_tweet,
                   continue_search, err, routes, fileVars>>

\* except HTTPError, status 429: time.sleep(seconds), and the end of the
\* function is reached: the call returns None.
Request429(d) ==
    /\ pc[d] = "fetch"
    /\ response' = [response EXCEPT ![d] = NoResponse]
    /\ last' = [last EXCEPT ![d] = "429"]
    /\ pc' = [pc EXCEPT ![d] = "loop"]
    /\ retry_num' = [retry_num EXCEPT ![d] = 0]
    /\ rotations' = [rotations EXCEPT ![d] = 0]
    /\ UNCHANGED <<paramVars, counter, session, schedVars, idx, min_tweet,
                   continue_search, err, routes, fileVars>>

\* The new session made one failure earlier: (retry_num + 1) tested
RotatesSession_Early(r) == (r + 1) % MAX_RETRIES_SESSION = 0

\* if retry_num % MAX_RETRIES_SESSION == 0 and retry_num > 0:
RotatesSession(r) == r % MAX_RETRIES_SESSION = 0 /\ r > 0

\* elif retry_num == MAX_RETRIES: return None
GivesUp(r) == ~RotatesSession(r) /\ r = MAX_RETRIES

\* except HTTPError, any other status: sleep, make a new session or give
\* up, else return self.execute_search(url, retry_num + 1).  A call nested
\* RecursionLimit deep raises RecursionError, which no handler catches.
RequestFail(d) ==
    /\ pc[d] = "fetch"
    /\ IF GivesUp(retry_num[d])
       THEN /\ response' = [response EXCEPT ![d] = NoResponse]
            /\ last' = [last EXCEPT ![d] = "other"]
            /\ pc' = [pc EXCEPT ![d] = "loop"]
            /\ retry_num' = [retry_num EXCEPT ![d] = 0]
            /\ rotations' = [rotations EXCEPT ![d] = 0]
            /\ UNCHANGED <<session, err>>
       ELSE /\ IF RotatesSession(retry_num[d])
               THEN /\ session' = d
                    /\ rotations' = [rotations EXCEPT ![d] = @ + 1]
               ELSE UNCHANGED <<session, rotations>>
            /\ IF retry_num[d] + 1 >= RecursionLimit
               THEN /\ pc' = [pc EXCEPT ![d] = "error"]
                    /\ err' = [err EXCEPT ![d] = "RecursionError"]
                    /\ UNCHANGED retry_num
               ELSE /\ retry_num' = [retry_num EXCEPT ![d] = @ + 1]
                    /\ UNCHANGED <<pc, err>>
            /\ UNCHANGED <<response, last>>
    /\ UNCHANGED <<paramVars, counter, schedVars, idx, min_tweet,
                   continue_search, routes, fileVars>>

\* ------------------------------------------------- perform_search
\* perform_search ends, by a return or by an exception that nothing
\* catches (the pool keeps it in the task's future): its locals are gone.
Leave_CancelsSiblings(d, how, exc) ==
    /\ pc' = [e \in Days |->
                IF e = d THEN how
                ELSE IF how = "error" /\ Running(e) THEN "error" ELSE pc[e]]
    /\ err' = [err EXCEPT ![d] = exc]
    /\ response' = [response EXCEPT ![d] = NoResponse]
    /\ idx' = [idx EXCEPT ![d] = 0]
    /\ min_tweet' = [min_tweet EXCEPT ![d] = "none"]
    /\ continue_search' = [continue_search EXCEPT ![d] = TRUE]
    /\ routes' = [routes EXCEPT ![d] = 0]

Leave(d, how, exc) ==
    /\ pc' = [pc EXCEPT ![d] = how]
    /\ err' = [err EXCEPT ![d] = exc]
    /\ response' = [response EXCEPT ![d] = NoResponse]
    /\ idx' = [idx EXCEPT ![d] = 0]
    /\ min_tweet' = [min_tweet EXCEPT ![d] = "none"]
    /\ continue_search' = [continue_search EXCEPT ![d] = TRUE]
    /\ routes' = [routes EXCEPT ![d] = 0]

\* while response is not None and continue_search
\*       and response['items_html'] is not None:
\*     tweets = self.parse_tweets(response['items_html'])
\*     if len(tweets) == 0: break
\*     if min_tweet is None: min_tweet = tweets[0]
\*     continue_search = self.save_tweets(tweets, since_date_str)
LoopTest(d) ==
    /\ pc[d] = "loop"
    /\ last' = [last EXCEPT ![d] = "none"]
    /\ IF response[d].kind = "none" \/ ~continue_search[d]
       THEN Leave(d, "done", "none") /\ UNCHANGED max_batch
       ELSE IF response[d].kind = "nokey"
       THEN Leave(d, "error", "KeyError_items_html") /\ UNCHANGED max_batch
       ELSE IF response[d].kind = "null" \/ Len(response[d].items) = 0
       THEN Leave(d, "done", "none") /\ UNCHANGED max_batch
       ELSE /\ min_tweet' = [min_tweet EXCEPT
                                ![d] = IF @ = "none" THEN "fresh" ELSE "old"]
            /\ idx' = [idx EXCEPT ![d] = 1]
            /\ routes' = [routes EXCEPT ![d] = @ + 1]
            /\ max_batch' = IF Len(response[d].items) > max_batch
                            THEN Len(response[d].items) ELSE max_batch
            /\ pc' = [pc EXCEPT ![d] = "save"]
            /\ UNCHANGED <<err, response, continue_search>>
    /\ UNCHANGED <<paramVars, counter, session, schedVars, retry_num,
                   rotations, jsonl_files_dicts, opened, closed, lines,
                   stamps>>

\* The outcomes of  min_tweet['id_str'] is not max_tweet['id_str'] : the
\* two are one object when min_tweet is the only record of the list just
\* parsed; two str objects made by different parses, or of different
\* records, are one object only if the interpreter shares equal strings.
IsNotOutcomes(d) ==
    IF min_tweet[d] = "fresh" /\ Len(response[d].items) = 1
    THEN {FALSE}
    ELSE {TRUE, FALSE}

\* max_tweet = tweets[-1]
\* if min_tweet['id_str'] is not max_tweet['id_str']:
\*     url = ...; time.sleep(self.rate_delay)
\*     response = self.execute_search(url)
Cursor(d) ==
    /\ pc[d] = "cursor"
    /\ \E isnot \in IsNotOutcomes(d) :
         IF isnot
         THEN /\ pc' = [pc EXCEPT ![d] = "fetch"]
              /\ retry_num' = [retry_num EXCEPT ![d] = 0]
              /\ rotations' = [rotations EXCEPT ![d] = 0]
              /\ routes' = [routes EXCEPT ![d] = 0]
              /\ response' = [response EXCEPT ![d] = NoResponse]
         ELSE /\ pc' = [pc EXCEPT ![d] = "loop"]
              /\ UNCHANGED <<retry_num, rotations, routes, response>>
    /\ UNCHANGED <<paramVars, counter, session, schedVars, idx, min_tweet,
                   continue_search, err, last, fileVars>>

\* ---------------------------------------------------- save_tweets
\* The record the for loop of save_tweets is at, as the hour of its
\* created_at: tweet_time.tm_hour
tweet_hour(d) == response[d].items[idx[d]]

\* The hour before instead of the hour after
previous_hour_Before(h) == h - 1

\* previous_hour = str(int(tweet_hour_str) + 1)
previous_hour(h) == h + 1

\* close_file forgiving a missing key: the new file is opened all the same
SaveBucket_ForgivesMissing(d) ==
    /\ pc[d] = "save"
    /\ jsonl_files_dicts' = [jsonl_files_dicts EXCEPT
            ![d] = [present |-> TRUE,
                    hours |-> IF tweet_hour(d) \in @.hours THEN @.hours
                              ELSE (@.hours \ {previous_hour(tweet_hour(d))})
                                       \cup {tweet_hour(d)}]]
    /\ opened' = [opened EXCEPT
            ![d] = IF tweet_hour(d) \in jsonl_files_dicts[d].hours
                   THEN @ ELSE Append(@, tweet_hour(d))]
    /\ closed' = [closed EXCEPT
            ![d] = IF /\ tweet_hour(d) \notin jsonl_files_dicts[d].hours
                      /\ previous_hour(tweet_hour(d)) \in jsonl_files_dicts[d].hours
                   THEN Append(@, previous_hour(tweet_hour(d))) ELSE @]
    /\ pc' = [pc EXCEPT ![d] = "incr"]
    /\ UNCHANGED <<paramVars, counter, session, schedVars, retry_num,
                   last, rotations, max_batch, lines, stamps, err, response,
                   idx, min_tweet, continue_search, routes>>

\* save_tweets without its two "not in" tests: a file is opened for every
\* record
SaveBucket_AlwaysOpens(d) ==
    /\ pc[d] = "save"
    /\ jsonl_files_dicts' = [jsonl_files_dicts EXCEPT
            ![d] = [present |-> TRUE, hours |-> @.hours \cup {tweet_hour(d)}]]
    /\ opened' = [opened EXCEPT ![d] = Append(@, tweet_hour(d))]
    /\ pc' = [pc EXCEPT ![d] = "incr"]
    /\ UNCHANGED <<paramVars, counter, session, schedVars, retry_num,
                   last, rotations, max_batch, lines, stamps, closed, err,
                   response,
                   idx, min_tweet, continue_search, routes>>

\* Lines 61-82 for one record: the day's dict and first file are made if the
\* day is no key yet; if the hour is no key of the day's dict, close_file
\* closes and deletes the stream of previous_hour (KeyError if there is
\* none) and the hour's file is opened.  Only the task of day d uses the
\* key since_date_str of day d, so the steps of other tasks cannot tell
\* this sequence from a single step.
SaveBucket(d) ==
    LET h == tweet_hour(d)
        dict == jsonl_files_dicts[d]
    IN  /\ pc[d] = "save"
        /\ IF ~dict.present
           THEN /\ jsonl_files_dicts' = [jsonl_files_dicts EXCEPT
                        ![d] = [present |-> TRUE, hours |-> {h}]]
                /\ opened' = [opened EXCEPT ![d] = Append(@, h)]
                /\ pc' = [pc EXCEPT ![d] = "incr"]
                /\ UNCHANGED <<closed, err, response, idx, min_tweet,
                               continue_search, routes>>
           ELSE IF h \in dict.hours
           THEN /\ pc' = [pc EXCEPT ![d] = "incr"]
                /\ UNCHANGED <<jsonl_files_dicts, opened, closed, err,
                               response, idx, min_tweet, continue_search,
                               routes>>
           ELSE IF previous_hour(h) \notin dict.hours
           THEN /\ Leave(d, "error", "KeyError_close_file")
                /\ UNCHANGED <<jsonl_files_dicts, opened, closed>>
           ELSE /\ closed' = [closed EXCEPT ![d] = Append(@, previous_hour(h))]
                /\ jsonl_files_dicts' = [jsonl_files_dicts EXCEPT
                        ![d].hours = (@ \ {previous_hour(h)}) \cup {h}]
                /\ opened' = [opened EXCEPT ![d] = Append(@, h)]
                /\ pc' = [pc EXCEPT ![d] = "incr"]
                /\ UNCHANGED <<err, response, idx, min_tweet,
                               continue_search, routes>>
        /\ UNCHANGED <<paramVars, counter, session, schedVars, retry_num,
                       last, rotations, max_batch, lines, stamps>>

\* The counter raised once for the whole list instead of once a record
Incr_PerBatch(d) ==
    /\ pc[d] = "incr"
    /\ counter' = IF idx[d] = 1 THEN counter + Len(response[d].items) ELSE counter
    /\ pc' = [pc EXCEPT ![d] = "write"]
    /\ UNCHANGED <<paramVars, session, schedVars, retry_num, response, idx,
                   min_tweet, continue_search, err, last, rotations, routes,
                   fileVars>>

\* self.counter_lock.acquire(); self.counter += 1; self.counter_lock.release()
Incr(d) ==
    /\ pc[d] = "incr"
    /\ counter' = counter + 1
    /\ pc' = [pc EXCEPT ![d] = "write"]
    /\ UNCHANGED <<paramVars, session, schedVars, retry_num, response, idx,
                   min_tweet, continue_search, err, last, rotations, routes,
                   fileVars>>

\* The "%Y-%m-%d" of the created_at of the record save_tweets is at
tweet_date(d) ==
    strftime(strptime(tasks[d].since) + response[d].days[idx[d]])

\* file.write(data + '\n'), then the locked progress log, which reads the
\* counter and changes nothing.  The file is the one of since_date_str and
\* tweet_hour_str.
Write(d) ==
    /\ pc[d] = "write"
    /\ lines' = [lines EXCEPT ![d][tweet_hour(d)] = @ + 1]
    /\ stamps' = [stamps EXCEPT ![d] = @ \cup {tweet_date(d)}]
    /\ pc' = [pc EXCEPT ![d] = "check"]
    /\ UNCHANGED <<paramVars, counter, session, schedVars, retry_num, response,
                   idx, min_tweet, continue_search, err, last, rotations,
                   routes, max_batch, jsonl_files_dicts, opened, closed>>

\* The test of the limit written with > instead of >=
LimitReached_Strict(c, l) == c > l

\* The test of the limit written with == instead of >=
LimitReached_Equal(c, l) == c = l

\* if self.counter >= self.limit:
LimitReached(c, l) == c >= l

\* The limit tested once per list, after the for loop, instead of after
\* every record
Check_PerBatch(d) ==
    /\ pc[d] = "check"
    /\ IF idx[d] < Len(response[d].items)
       THEN /\ idx' = [idx EXCEPT ![d] = @ + 1]
            /\ pc' = [pc EXCEPT ![d] = "save"]
            /\ UNCHANGED continue_search
       ELSE /\ continue_search' = [continue_search EXCEPT
                                     ![d] = ~LimitReached(counter, limit)]
            /\ pc' = [pc EXCEPT ![d] = "cursor"]
            /\ UNCHANGED idx
    /\ UNCHANGED <<paramVars, counter, session, schedVars, retry_num, response,
                   min_tweet, err, last, rotations, routes, fileVars>>

\* The third locked section: return False if the limit is reached, else go
\* on with the next record, or return True after the last one.
Check(d) ==
    /\ pc[d] = "check"
    /\ IF LimitReached(counter, limit)
       THEN /\ continue_search' = [continue_search EXCEPT ![d] = FALSE]
            /\ pc' = [pc EXCEPT ![d] = "cursor"]
            /\ UNCHANGED idx
       ELSE IF idx[d] < Len(response[d].items)
       THEN /\ idx' = [idx EXCEPT ![d] = @ + 1]
            /\ pc' = [pc EXCEPT ![d] = "save"]
            /\ UNCHANGED continue_search
       ELSE /\ continue_search' = [continue_search EXCEPT ![d] = TRUE]
            /\ pc' = [pc EXCEPT ![d] = "cursor"]
            /\ UNCHANGED idx
    /\ UNCHANGED <<paramVars, counter, session, schedVars, retry_num, response,
                   min_tweet, err, last, rotations, routes, fileVars>>

\* ------------------------------------------ TwitterScraper.py
slicerVars == <<program, since, until, tasks, wait, n_days, n_threads, limit, counter, session, sched, submitted,
                pc, retry_num, response, idx, min_tweet, continue_search, err,
                last, rotations, routes, max_batch, jsonl_files_dicts, opened,
                closed, lines, stamps>>

\* TwitterSearchImpl.search up to the first request of TwitterSearch.search:
\* self.jsonl_file = io.open(self.filepath, 'w', encoding='utf-8')
ImplSearch ==
    /\ program = "scraper"
    /\ impl.pc = "start"
    /\ impl' = [impl EXCEPT !.jsonl_file = "open", !.continue_search = TRUE,
                            !.min_item = 0, !.retry_num = 0, !.pc = "fetch"]
    /\ UNCHANGED slicerVars

\* response.raise_for_status() passes: return response.json()
ImplRequestOk ==
    /\ impl.pc = "fetch"
    /\ \E b \in ImplBodies :
         impl' = [impl EXCEPT !.response = b, !.last = "ok", !.retry_num = 0,
                              !.pc = "loop"]
    /\ UNCHANGED slicerVars

\* except HTTPError, status 400: return response.json()
ImplRequest400 ==
    /\ impl.pc = "fetch"
    /\ \E b \in ImplBodies :
         impl' = [impl EXCEPT !.response = b, !.last = "400", !.retry_num = 0,
                              !.pc = "loop"]
    /\ UNCHANGED slicerVars

\* except HTTPError, any other status (429 too): sleep, make a new session
\* or give up, else return self.execute_search(url, retry_num + 1)
ImplRequestFail ==
    /\ impl.pc = "fetch"
    /\ IF GivesUp(impl.retry_num)
       THEN impl' = [impl EXCEPT !.response = ImplNoResponse, !.last = "other",
                                 !.retry_num = 0, !.pc = "loop"]
       ELSE LET s == IF RotatesSession(impl.retry_num) THEN 1 ELSE impl.session
            IN  IF impl.retry_num + 1 >= RecursionLimit
                THEN impl' = [impl EXCEPT !.session = s, !.pc = "error",
                                          !.err = "RecursionError"]
                ELSE impl' = [impl EXCEPT !.session = s, !.retry_num = @ + 1]
    /\ UNCHANGED slicerVars

\* The while test of TwitterSearch.search, the parse and the empty-page
\* break; when the loop ends, search returns to TwitterSearchImpl.search.
ImplLoopTest ==
    /\ impl.pc = "loop"
    /\ IF impl.response.kind = "none" \/ ~impl.continue_search
       THEN impl' = [impl EXCEPT !.last = "none", !.pc = "close"]
       ELSE IF impl.response.kind = "nokey"
       THEN impl' = [impl EXCEPT !.last = "none", !.pc = "error",
                                 !.err = "KeyError_items_html"]
       ELSE IF impl.response.kind = "null" \/ Len(impl.response.items) = 0
       THEN impl' = [impl EXCEPT !.last = "none", !.pc = "close"]
       ELSE impl' = [impl EXCEPT !.last = "none", !.idx = 1, !.saves = @ + 1,
                                 !.pc = "save"]
    /\ UNCHANGED slicerVars

\* if self.counter >= self.max_items:
MaxItemsReached(c, m) == c >= m

\* save_items for one item: count it, write its line, return False if
\* max_items is reached; return True after the last item.
ImplSaveItem ==
    /\ impl.pc = "save"
    /\ LET c == impl.counter + 1
       IN  IF MaxItemsReached(c, impl.max_items)
           THEN impl' = [impl EXCEPT !.counter = c, !.written = @ + 1,
                                     !.continue_search = FALSE,
                                     !.pc = "cursor"]
           ELSE IF impl.idx < Len(impl.response.items)
           THEN impl' = [impl EXCEPT !.counter = c, !.written = @ + 1,
                                     !.idx = @ + 1]
           ELSE impl' = [impl EXCEPT !.counter = c, !.written = @ + 1,
                                     !.continue_search = TRUE,
                                     !.pc = "cursor"]
    /\ UNCHANGED slicerVars

\* The outcomes of  min_item is not max_item : None is None; values that
\* differ are two objects; equal strings of two responses are one object
\* only if the interpreter shares them.
ImplIsNotOutcomes ==
    IF impl.min_item # impl.response.min_position THEN {TRUE}
    ELSE IF impl.min_item = 0 THEN {FALSE}
    ELSE {TRUE, FALSE}

\* max_item = response["min_position"]
\* if min_item is not max_item:
\*     url = ...; sleep(self.rate_delay)
\*     response = self.execute_search(url); min_item = max_item
ImplCursor ==
    /\ impl.pc = "cursor"
    /\ \E isnot \in ImplIsNotOutcomes :
         IF isnot
         THEN impl' = [impl EXCEPT !.min_item = impl.response.min_position,
                                   !.response = ImplNoResponse,
                                   !.retry_num = 0, !.saves = 0, !.idx = 0,
                                   !.pc = "fetch"]
         ELSE impl' = [impl EXCEPT !.pc = "loop"]
    /\ UNCHANGED slicerVars

\* self.jsonl_file.close(), after TwitterSearch.search has returned
ImplClose ==
    /\ impl.pc = "close"
    /\ impl' = [impl EXCEPT !.jsonl_file = "closed", !.pc = "done",
                            !.response = ImplNoResponse, !.idx = 0,
                            !.min_item = 0, !.saves = 0]
    /\ UNCHANGED slicerVars

\* ---------------------------------------------------- specification
Next ==
    \/ Submit
    \/ Shutdown
    \/ Return
    \/ \E d \in Days : Start(d)
    \/ \E d \in Days : RequestOk(d)
    \/ \E d \in Days : Request400(d)
    \/ \E d \in Days : Request429(d)
    \/ \E d \in Days : RequestFail(d)
    \/ \E d \in Days : LoopTest(d)
    \/ \E d \in Days : SaveBucket(d)
    \/ \E d \in Days : Incr(d)
    \/ \E d \in Days : Write(d)
    \/ \E d \in Days : Check(d)
    \/ \E d \in Days : Cursor(d)
    \/ ImplSearch
    \/ ImplRequestOk
    \/ ImplRequest400
    \/ ImplRequestFail
    \/ ImplLoopTest
    \/ ImplSaveItem
    \/ ImplCursor
    \/ ImplClose

Spec == Init /\ [][Next]_vars

\* ------------------------------------------------ the slicer on any range
\* Ranges that start at a year's end and at February 28th of a leap year,
\* of a year that is none and of a century year that is none
SliceStarts ==
    {<<2019, 12, 31>>, <<2020, 2, 28>>, <<2021, 2, 28>>, <<2100, 2, 28>>}

InitSlices ==
    /\ program = "slicer"
    /\ impl = ImplInit(1)
    /\ SlicerInit
    /\ limit = 1
    /\ RangeInit(SliceStarts)
    /\ wait = NoWait

\* The steps of TwitterSlicer.search and of its crawlers
NextSlices ==
    \/ Submit
    \/ Shutdown
    \/ Return
    \/ \E d \in Days : Start(d)
    \/ \E d \in Days : RequestOk(d)
    \/ \E d \in Days : Request400(d)
    \/ \E d \in Days : Request429(d)
    \/ \E d \in Days : RequestFail(d)
    \/ \E d \in Days : LoopTest(d)
    \/ \E d \in Days : SaveBucket(d)
    \/ \E d \in Days : Incr(d)
    \/ \E d \in Days : Write(d)
    \/ \E d \in Days : Check(d)
    \/ \E d \in Days : Cursor(d)

SpecSlices == InitSlices /\ [][NextSlices]_vars

\* ------------------------------------- the slicer against a stub server
\* A server that answers the first request of a day with a page of one
\* record and every later request with an empty page
StubBodies(d) ==
    IF min_tweet[d] = "none"
    THEN {[kind |-> "page", items |-> <<h>>, days |-> <<0>>] : h \in Hours}
    ELSE {[kind |-> "page", items |-> <<>>, days |-> <<>>]}

\* execute_search when the server is the stub: the request never fails
StubRequestOk(d) ==
    /\ pc[d] = "fetch"
    /\ \E b \in StubBodies(d) : response' = [response EXCEPT ![d] = b]
    /\ last' = [last EXCEPT ![d] = "ok"]
    /\ pc' = [pc EXCEPT ![d] = "loop"]
    /\ retry_num' = [retry_num EXCEPT ![d] = 0]
    /\ rotations' = [rotations EXCEPT ![d] = 0]
    /\ UNCHANGED <<paramVars, counter, session, schedVars, idx, min_tweet,
                   continue_search, err, routes, fileVars>>

InitStub ==
    /\ program = "slicer"
    /\ impl = ImplInit(1)
    /\ SlicerInit
    /\ RangeInit({<<2020, 1, 1>>})
    /\ wait = NoWait

NextStub ==
    \/ Submit
    \/ Shutdown
    \/ Return
    \/ \E d \in Days : Start(d)
    \/ \E d \in Days : StubRequestOk(d)
    \/ \E d \in Days : LoopTest(d)
    \/ \E d \in Days : SaveBucket(d)
    \/ \E d \in Days : Incr(d)
    \/ \E d \in Days : Write(d)
    \/ \E d \in Days : Check(d)
    \/ \E d \in Days : Cursor(d)

SpecStub == InitStub /\ [][NextStub]_vars

\* ------------------------- the slicer against a server that leaves the window
\* Pages whose records may be of the day before the since: date of the
\* request
DatedBodies ==
    {[kind |-> "page", items |-> p, days |-> o] :
        p \in Pages, o \in UNION {[1..n -> {-1, 0}] : n \in 0..MaxPage}}

\* execute_search when the request is answered by such a page
DatedRequestOk(d) ==
    /\ pc[d] = "fetch"
    /\ \E b \in {x \in DatedBodies : Len(x.days) = Len(x.items)} :
         response' = [response EXCEPT ![d] = b]
    /\ last' = [last EXCEPT ![d] = "ok"]
    /\ pc' = [pc EXCEPT ![d] = "loop"]
    /\ retry_num' = [retry_num EXCEPT ![d] = 0]
    /\ rotations' = [rotations EXCEPT ![d] = 0]
    /\ UNCHANGED <<paramVars, counter, session, schedVars, idx, min_tweet,
                   continue_search, err, routes, fileVars>>

InitDated ==
    /\ program = "slicer"
    /\ impl = ImplInit(1)
    /\ SlicerInit
    /\ RangeInit({<<2020, 1, 1>>})
    /\ wait = NoWait

NextDated ==
    \/ Submit
    \/ Shutdown
    \/ Return
    \/ \E d \in Days : Start(d)
    \/ \E d \in Days : DatedRequestOk(d)
    \/ \E d \in Days : LoopTest(d)
    \/ \E d \in Days : SaveBucket(d)
    \/ \E d \in Days : Incr(d)
    \/ \E d \in Days : Write(d)
    \/ \E d \in Days : Check(d)
    \/ \E d \in Days : Cursor(d)

SpecDated == InitDated /\ [][NextDated]_vars

\* ------------------------------------------- the wait on a 429 answer
\* The 429 branch of execute_search taken alone, as a function of the
\* x-rate-limit-reset header, the retry_num of the call and
\* self.error_delay; now is the clock when the answer arrives.
Epochs == {1600000000}

WaitInputs ==
    {[at |-> "429", now |-> t, reset |-> t + o, retry_num |-> r,
      error_delay |-> e, seconds |-> 0] :
        t \in Epochs, o \in {-10, 0, 10}, r \in 0..MAX_RETRIES, e \in {0, 5}}

\* seconds = reset + retry_num * self.error_delay
seconds(reset, r, e) == reset + r * e

\* reset = int(e.response.headers['x-rate-limit-reset']); seconds = ...;
\* time.sleep(seconds)
Sleep429 ==
    /\ wait.at = "429"
    /\ wait' = [wait EXCEPT !.at = "slept",
                            !.seconds = seconds(wait.reset, wait.retry_num,
                                                wait.error_delay)]
    /\ UNCHANGED <<program, impl, since, until, n_days, n_threads, limit,
                   counter, session, schedVars, pc, retry_num, response, idx,
                   min_tweet, continue_search, err, last, rotations, routes,
                   fileVars>>

InitWait ==
    /\ program = "slicer"
    /\ impl = ImplInit(1)
    /\ SlicerInit
    /\ limit = 1
    /\ RangeInit({<<2020, 1, 1>>})
    /\ n_days = 1
    /\ wait \in WaitInputs

NextWait == Sleep429

SpecWait == InitWait /\ [][NextWait]_vars

\* ------------------------------------------------------ quantities
RECURSIVE SumOver(_, _)
SumOver(f, S) ==
    IF S = {} THEN 0
    ELSE LET x == CHOOSE y \in S : TRUE IN f[x] + SumOver(f, S \ {x})

\* Lines written to all the files of the slicer
TotalWritten ==
    SumOver([d \in Days |-> SumOver(lines[d], Hours)], Days)

\* Times h occurs in the sequence q
Occurrences(q, h) == Cardinality({i \in 1..Len(q) : q[i] = h})

\* Streams open on the file of day d and hour h: io.open calls less close
\* calls
OpenStreams(d, h) == Occurrences(opened[d], h) - Occurrences(closed[d], h)

\* ------------------------------------------------------------ claims

\* C1: with a single crawler and a limit L >= 1 the sink returns False
\* within the list in which the counter reaches L, goes on to no further
\* record of that list, and the lines written never exceed L; this holds
\* for save_tweets of TwitterSlicer and for save_items of TwitterSearchImpl.
C1_SingleCrawlerStopsAtLimit ==
    /\ (program = "slicer" /\ n_days = 1) =>
          /\ TotalWritten <= limit
          /\ counter <= limit
          /\ counter >= limit => pc[1] \notin {"save", "incr"}
          /\ (pc[1] = "cursor" /\ counter >= limit) => ~continue_search[1]
    /\ program = "scraper" =>
          /\ impl.written <= impl.max_items
          /\ impl.counter >= impl.max_items => impl.pc # "save"
          /\ (impl.pc = "cursor" /\ impl.counter >= impl.max_items)
                => ~impl.continue_search

\* The single crawler has been given False in the middle of a list: the
\* limit is reached, and a record of the list is left unwritten.
C1_Witness ==
    /\ program = "slicer" /\ n_days = 1
    /\ pc[1] = "cursor" /\ ~continue_search[1]
    /\ idx[1] < Len(response[1].items)
    /\ TotalWritten = limit

\* C2: when every request of an execute_search call fails with a transient
\* error, the call returns None once MAX_RETRIES failures have occurred: no
\* request is made with a retry_num beyond MAX_RETRIES and the call does not
\* end in another way.
C2_ReturnsNoneAfterMaxRetries ==
    /\ \A d \in Days : retry_num[d] <= MAX_RETRIES
    /\ \A d \in Days : err[d] # "RecursionError"
    /\ impl.retry_num <= MAX_RETRIES
    /\ impl.err # "RecursionError"

\* C3: when the last record of the list just routed is the very record kept
\* as min_tweet, the crawler stops; so no response is given to save_tweets
\* a second time.
C3_PageRoutedOnce == \A d \in Days : routes[d] <= 1

\* C4: whenever save_tweets comes to a record whose hour has no stream while
\* the day has an open bucket, the open stream is closed, the file of the
\* record's hour is opened and the record goes on to be counted and written.
C4_RotationToAnyHour ==
    [][\A d \in Days :
         (/\ pc[d] = "save"
          /\ jsonl_files_dicts[d].present
          /\ tweet_hour(d) \notin jsonl_files_dicts[d].hours
          /\ pc'[d] # pc[d])
         => (/\ pc'[d] = "incr"
             /\ jsonl_files_dicts'[d].hours = {tweet_hour(d)}
             /\ Len(closed'[d]) = Len(closed[d]) + 1)]_vars

\* C5: at no time do more than n_threads day crawlers execute.
C5_AtMostNThreadsRunning ==
    program = "slicer" => NumRunning <= n_threads

\* C6: with two crawlers sharing the counter and a limit L, the lines
\* written are at most L + 1 under every interleaving.
C6_TwoCrawlersOneExtra ==
    (program = "slicer" /\ n_days = 2) => TotalWritten <= limit + 1

\* Two crawlers have together written one record more than the limit.
C6_Witness ==
    program = "slicer" /\ n_days = 2 /\ TotalWritten = limit + 1

\* C7 as stated: the lines written are at most limit + (batch size - 1),
\* the batch size being the largest list given to save_tweets.
C7_WithinOneBatchOfLimit ==
    program = "slicer" => TotalWritten <= limit + (max_batch - 1)

\* C7 as amended: the lines written are at most limit + (crawlers - 1),
\* whatever the size of the lists; a single crawler never exceeds the limit.
C7_WithinCrawlersOfLimit ==
    program = "slicer" => TotalWritten <= limit + (n_days - 1)

\* Two crawlers that were only given lists of one record have written
\* limit + 1 lines.
C7_Witness ==
    /\ program = "slicer" /\ n_days = 2 /\ max_batch = 1
    /\ TotalWritten = limit + (n_days - 1)

\* C8: between a crawler's increment for a record and its comparison of the
\* counter with the limit for that record, the counter is not changed.
C8_IncrementAndCompareAtomic ==
    [][\A d \in Days : pc[d] \in {"write", "check"} => counter' = counter]_vars

\* C9: a request answered 429 is followed, after the wait, by another
\* request of the same call with retry_num incremented.
C9_RateLimitedRetries ==
    [][\A d \in Days :
         (pc[d] = "fetch" /\ last'[d] = "429")
         => (pc'[d] = "fetch" /\ retry_num'[d] = retry_num[d] + 1)]_vars

\* C10: a request answered 400 returns the body with no retry and no new
\* session, and the crawl loop then ends with no record of that body routed
\* and no error, whatever the body holds.
C10_BadRequestEndsCrawl ==
    [][/\ \A d \in Days :
            /\ (pc[d] = "fetch" /\ last'[d] = "400")
                    => (pc'[d] = "loop" /\ session' = session)
            /\ (pc[d] = "loop" /\ last[d] = "400" /\ pc'[d] # "loop")
                    => pc'[d] = "done"
       /\ (impl.pc = "loop" /\ impl.last = "400" /\ impl'.pc # "loop")
            => impl'.pc = "close"]_vars

\* C11 as stated: in a run of transient failures of one execute_search call
\* no new session is made before the 5th failure, and exactly one has been
\* made when the 6th request (retry_num 5) is issued.
C11_RotatedBeforeSixthRequest ==
    \A d \in Days :
        pc[d] = "fetch" =>
            /\ retry_num[d] < MAX_RETRIES_SESSION => rotations[d] = 0
            /\ retry_num[d] = MAX_RETRIES_SESSION => rotations[d] = 1

\* C11 as amended: no new session is made up to and including the 6th
\* request (retry_num 5); exactly one has been made when the 7th request
\* (retry_num 6) is issued, that is after the 6th failure.
C11_RotatedBeforeSeventhRequest ==
    \A d \in Days :
        pc[d] = "fetch" =>
            /\ retry_num[d] <= MAX_RETRIES_SESSION => rotations[d] = 0
            /\ retry_num[d] = MAX_RETRIES_SESSION + 1 => rotations[d] = 1

\* A crawler is about to issue its 7th request in a row and one new session
\* has been made, by it.
C11_Witness ==
    \E d \in Days :
        /\ pc[d] = "fetch" /\ retry_num[d] = MAX_RETRIES_SESSION + 1
        /\ rotations[d] = 1 /\ session = d

\* C12: once save_tweets has returned False the crawler makes no further
\* request and routes no further record.
C12_StopsAfterFalse ==
    \A d \in Days : ~continue_search[d] => pc[d] \in {"cursor", "loop"}

\* C14: search returns only after every submitted day task has ended, by a
\* return or by an error.
C14_ReturnsAfterAllTasks ==
    sched = "returned" => \A d \in 1..n_days : Finished(d)

\* search has returned after one task ended with an error and the other
\* returned.
C14_Witness ==
    /\ sched = "returned" /\ n_days = 2
    /\ \E d \in Days : pc[d] = "error"
    /\ \E d \in Days : pc[d] = "done"

\* C15: once search has returned no stream opened during the run is open.
C15_NoStreamLeftOpen ==
    sched = "returned" => \A d \in Days : jsonl_files_dicts[d].hours = {}

\* C16: at every time every (date, hour) file has at most one open stream,
\* the dict of a day holds a stream exactly for the hours whose file has
\* one, and no two crawlers have the same date in their keys.
C16_OneStreamPerKey ==
    /\ \A d \in Days : \A h \in Hours :
        /\ OpenStreams(d, h) <= 1
        /\ OpenStreams(d, h) = IF h \in jsonl_files_dicts[d].hours THEN 1 ELSE 0
    /\ \A d, e \in 1..Len(tasks) :
        d # e => tasks[d].since_date_str # tasks[e].since_date_str

\* Two crawlers hold a stream for the same hour, each on the file of its own
\* day, and one of them has rotated before.
C16_Witness ==
    /\ n_days = 2
    /\ OpenStreams(1, 10) = 1 /\ OpenStreams(2, 10) = 1
    /\ \E d \in Days : Len(closed[d]) = 1

\* C17: the step by which a crawler ends, by an error or by a return, leaves
\* the counter, the other crawlers and the files of the other days as they
\* are.
C17_FailureIsLocal ==
    [][\A d \in Days :
         (~Finished(d) /\ pc'[d] \in {"done", "error"})
         => /\ counter' = counter
            /\ \A e \in Days \ {d} :
                 /\ pc'[e] = pc[e]
                 /\ jsonl_files_dicts'[e] = jsonl_files_dicts[e]
                 /\ opened'[e] = opened[e]
                 /\ closed'[e] = closed[e]
                 /\ lines'[e] = lines[e]]_vars

\* One crawler has ended with an error and the other has since written a
\* record and ended by a return.
C17_Witness ==
    \E d, e \in Days :
        /\ pc[d] = "error" /\ pc[e] = "done"
        /\ SumOver(lines[d], Hours) = 0 /\ SumOver(lines[e], Hours) > 0

\* C19: a record of hour h for a day that has a dict with no
\* stream for h closes the stream of h + 1, deletes it from the dict and
\* opens the file of h, which then receives the record.
C19_ClosesNextHour ==
    [][\A d \in Days :
         (/\ pc[d] = "save"
          /\ jsonl_files_dicts[d].present
          /\ tweet_hour(d) \notin jsonl_files_dicts[d].hours
          /\ pc'[d] # pc[d])
         => (/\ closed'[d] = Append(closed[d], tweet_hour(d) + 1)
             /\ jsonl_files_dicts'[d].hours =
                    (jsonl_files_dicts[d].hours \ {tweet_hour(d) + 1})
                        \cup {tweet_hour(d)}
             /\ opened'[d] = Append(opened[d], tweet_hour(d))
             /\ pc'[d] = "incr")]_vars

\* C13: against the stub server, with a limit the records do not reach,
\* search returns after exactly n_days tasks, each ended by a return with
\* exactly one line in the files of its day.
C13_OneLinePerDay ==
    (sched = "returned" /\ limit > n_days)
    => /\ Len(tasks) = n_days
       /\ \A d \in 1..n_days :
            pc[d] = "done" /\ SumOver(lines[d], Hours) = 1

\* A "%Y-%m-%d" string of a day of the calendar
IsDateStr(s) ==
    /\ s[2] \in 1..12
    /\ s[3] \in 1..DaysInMonth(s[1], s[2])

\* C18: search submits n_days tasks; the i-th (from 0) carries the window
\* [since + i days, since + i + 1 days) and the key since + i days; the
\* windows are disjoint, cover [since, until) and the keys are distinct.
C18_DayWindows ==
    /\ Len(tasks) = submitted
    /\ sched # "submit" => Len(tasks) = time_until - time_since
    /\ \A i \in 1..Len(tasks) :
        /\ IsDateStr(tasks[i].since) /\ IsDateStr(tasks[i].until)
        /\ strptime(tasks[i].since) = strptime(since) + (i - 1)
        /\ strptime(tasks[i].until) = strptime(since) + i
        /\ tasks[i].since_date_str = tasks[i].since
    /\ \A i, j \in 1..Len(tasks) :
        i < j => /\ strptime(tasks[i].until) <= strptime(tasks[j].since)
                 /\ tasks[i].since_date_str # tasks[j].since_date_str
    /\ sched # "submit" =>
        \A t \in strptime(since)..(strptime(until) - 1) :
            \E i \in 1..Len(tasks) :
                strptime(tasks[i].since) <= t /\ t < strptime(tasks[i].until)

\* search has returned after the two tasks of the range from 2020-02-28
\* to 2020-03-01.
C18_Witness ==
    /\ sched = "returned"
    /\ since = <<2020, 2, 28>> /\ until = <<2020, 3, 1>>
    /\ Len(tasks) = 2
    /\ tasks[1].since = <<2020, 2, 28>> /\ tasks[1].until = <<2020, 2, 29>>
    /\ tasks[2].since = <<2020, 2, 29>> /\ tasks[2].until = <<2020, 3, 1>>

\* max(0, reset - now)
UntilReset(reset, now) == IF reset > now THEN reset - now ELSE 0

\* C20: the wait on a 429 answer is max(0, reset - now) + retry_num *
\* error_delay.
C20_WaitsUntilReset ==
    wait.at = "slept"
    => wait.seconds = UntilReset(wait.reset, wait.now)
                        + wait.retry_num * wait.error_delay

\* A crawler is inside a save_tweets call
InSaveTweets(d) == pc[d] \in {"save", "incr", "write", "check"}

\* C21: whenever no crawler is inside a save_tweets call the counter is the
\* number of lines written to all the files; at any time it is that number
\* plus the crawlers that have counted a record they have yet to write.
C21_CounterIsLinesWritten ==
    program = "slicer"
    => /\ (\A d \in Days : ~InSaveTweets(d)) => counter = TotalWritten
       /\ counter = TotalWritten
                       + Cardinality({d \in Days : pc[d] = "write"})

\* Two crawlers have both written and ended, one of them with two lines
\* in its files.
C21_Witness ==
    /\ \A d \in Days : pc[d] = "done"
    /\ SumOver(lines[1], Hours) = 2 /\ SumOver(lines[2], Hours) = 1
    /\ counter = 3

\* C26: the dict of a day holds at most one stream, and exactly one from
\* the day's first record on; the hours of the files opened for a day go
\* down by exactly one at each rotation, so no file is opened twice.
C26_OneLiveHourGoingDown ==
    \A d \in Days :
        /\ Cardinality(jsonl_files_dicts[d].hours) <= 1
        /\ jsonl_files_dicts[d].present
            <=> Cardinality(jsonl_files_dicts[d].hours) = 1
        /\ jsonl_files_dicts[d].present <=> opened[d] # <<>>
        /\ opened[d] # <<>>
            => jsonl_files_dicts[d].hours = {opened[d][Len(opened[d])]}
        /\ \A i \in 1..(Len(opened[d]) - 1) : opened[d][i + 1] = opened[d][i] - 1
        /\ \A i, j \in 1..Len(opened[d]) : i # j => opened[d][i] # opened[d][j]
        /\ Len(closed[d]) = Len(opened[d]) - (IF opened[d] = <<>> THEN 0 ELSE 1)

\* A day has rotated from hour 11 to hour 10 and written to both files.
C26_Witness ==
    \E d \in Days :
        /\ opened[d] = <<11, 10>> /\ closed[d] = <<11>>
        /\ lines[d][11] >= 1 /\ lines[d][10] >= 1

\* C27: a record of hour h for a day whose dict has a stream, but none for
\* h and none for h + 1, ends the crawler with a KeyError before any
\* change: nothing is opened, closed or written and the counter is left.
C27_MissingNextHourFails ==
    [][\A d \in Days :
         (/\ pc[d] = "save"
          /\ jsonl_files_dicts[d].present
          /\ tweet_hour(d) \notin jsonl_files_dicts[d].hours
          /\ tweet_hour(d) + 1 \notin jsonl_files_dicts[d].hours
          /\ pc'[d] # pc[d])
         => (/\ pc'[d] = "error"
             /\ err'[d] = "KeyError_close_file"
             /\ counter' = counter
             /\ jsonl_files_dicts' = jsonl_files_dicts
             /\ opened' = opened /\ closed' = closed
             /\ lines' = lines)]_vars

\* A crawler has ended with the KeyError of close_file on the second
\* record of a list; the first record, of hour 10, stays written.
C27_Witness ==
    \E d \in Days :
        /\ pc[d] = "error" /\ err[d] = "KeyError_close_file"
        /\ opened[d] = <<10>> /\ closed[d] = <<>>
        /\ lines[d][10] = 1 /\ lines[d][11] = 0
        /\ counter >= 1

\* C23: a new session made for one crawler never replaces the session
\* while a crawler of another day is running.
C23_RotationSparesOtherCrawlers ==
    [][session' # session
       => \A e \in Days : Running(e) => e = session']_vars

\* C24: in TwitterSearch.search of TwitterScraper.py a page whose
\* min_position is the cursor of the page before ends the loop: no request
\* follows and the page is not given to save_items again.
C24_EqualCursorEndsLoop ==
    [][/\ (/\ impl.pc = "cursor"
           /\ impl.min_item # 0
           /\ impl.min_item = impl.response.min_position
           /\ impl'.pc # impl.pc)
          => impl'.pc # "fetch"
       /\ (impl.pc = "loop" /\ impl.saves >= 1 /\ impl'.pc # impl.pc)
          => impl'.pc # "save"]_vars

\* C25: with k crawlers and a limit L the counter never passes L + (k - 1):
\* a crawler that has written a record when the counter has reached L is
\* told to stop by the test that follows, and a crawler told to stop
\* counts and writes nothing more.
C25_OneMoreRecordEach ==
    /\ [](program = "slicer" => counter <= limit + (n_days - 1))
    /\ [][\A d \in Days :
            /\ (pc[d] = "check" /\ LimitReached(counter, limit)
                    /\ pc'[d] # pc[d])
                => (pc'[d] = "cursor" /\ ~continue_search'[d])
            /\ ~continue_search[d]
                => /\ pc'[d] \notin {"save", "incr", "write", "check"}
                   /\ lines'[d] = lines[d]
                   /\ (pc'[d] # pc[d] => counter' = counter)]_vars

\* Two crawlers and limit 2: the counter stands at 3, both crawlers have
\* been told to stop and the second one wrote its record after the counter
\* had reached the limit.
C25_Witness ==
    /\ n_days = 2 /\ limit = 2 /\ counter = 3
    /\ SumOver(lines[1], Hours) = 2 /\ SumOver(lines[2], Hours) = 1
    /\ ~continue_search[1] /\ ~continue_search[2]

\* C22: every record written, one of another day than the slice's too, is
\* in a file whose key has the date of the record's created_at.
C22_FiledUnderRecordDate ==
    \A d \in 1..Len(tasks) :
        \A s \in stamps[d] : s = tasks[d].since_date_str
====
